---- MODULE Spec2Model ----
(***************************************************************************)
(* A model of ollama-models.py: the magnitude parsers, the predicate       *)
(* evaluators, the filter pipeline of main(), the top-n truncation, the    *)
(* sort resolver and the exit paths.                                       *)
(*                                                                         *)
(* Python strings are sequences of one-character strings, so that slicing, *)
(* prefix tests, lower() and the regular expressions are computed and not  *)
(* assumed.  Python floats are exact rationals [n, d] (every value of the  *)
(* model is a short decimal).  A Python exception is the field exc of a    *)
(* result record.                                                          *)
(***************************************************************************)
EXTENDS Integers, Sequences, FiniteSets, TLC

(***************************************************************************)
(* Characters and strings                                                  *)
(***************************************************************************)
Digits == <<"0", "1", "2", "3", "4", "5", "6", "7", "8", "9">>

LowerLetters == <<"a", "b", "c", "d", "e", "f", "g", "h", "i", "j", "k", "l", "m",
                  "n", "o", "p", "q", "r", "s", "t", "u", "v", "w", "x", "y", "z">>

UpperLetters == <<"A", "B", "C", "D", "E", "F", "G", "H", "I", "J", "K", "L", "M",
                  "N", "O", "P", "Q", "R", "S", "T", "U", "V", "W", "X", "Y", "Z">>

\* the characters of the model in code-point order
Ascii == <<"+", "-", ".">> \o Digits \o <<":", "=">> \o UpperLetters \o LowerLetters

IndexIn(c, seq) == IF \E i \in 1..Len(seq) : seq[i] = c
                   THEN CHOOSE i \in 1..Len(seq) : seq[i] = c
                   ELSE 0

IsDigit(c) == IndexIn(c, Digits) > 0

IsAlpha(c) == IndexIn(c, LowerLetters) > 0 \/ IndexIn(c, UpperLetters) > 0

DigitVal(c) == IndexIn(c, Digits) - 1

Ord(c) == IndexIn(c, Ascii)

\* str.lower() on one character
LowerChar(c) == IF IndexIn(c, UpperLetters) > 0
                THEN LowerLetters[IndexIn(c, UpperLetters)]
                ELSE c

\* str.lower()
Lower(s) == [i \in 1..Len(s) |-> LowerChar(s[i])]

\* s[k:] for k >= 0
From(s, k) == SubSeq(s, k + 1, Len(s))

\* s.startswith(p)
StartsWith(s, p) == Len(s) >= Len(p) /\ SubSeq(s, 1, Len(p)) = p

\* p in s
Contains(s, p) == \E i \in 1..(Len(s) - Len(p) + 1) : SubSeq(s, i, i + Len(p) - 1) = p

\* s.lstrip(c): the index of the first character that is not c
RECURSIVE LStrip(_, _)
LStrip(s, c) == IF Len(s) > 0 /\ s[1] = c THEN LStrip(Tail(s), c) ELSE s

\* s.split(c)[0]
RECURSIVE SplitFirst(_, _)
SplitFirst(s, c) == IF Len(s) = 0 \/ s[1] = c THEN <<>>
                    ELSE <<s[1]>> \o SplitFirst(Tail(s), c)

\* the length of the longest prefix of s whose characters all satisfy the class
\* cls: "digit", "digitdot", "alpha"
InClass(c, cls) == CASE cls = "digit" -> IsDigit(c)
                     [] cls = "digitdot" -> IsDigit(c) \/ c = "."
                     [] cls = "alpha" -> IsAlpha(c)

RECURSIVE RunLen(_, _)
RunLen(s, cls) == IF Len(s) > 0 /\ InClass(s[1], cls) THEN 1 + RunLen(Tail(s), cls) ELSE 0

\* s1 < s2, Python's comparison of strings (by code point, shorter prefix first)
RECURSIVE StrLess(_, _)
StrLess(s1, s2) == IF Len(s2) = 0 THEN FALSE
                   ELSE IF Len(s1) = 0 THEN TRUE
                   ELSE IF s1[1] = s2[1] THEN StrLess(Tail(s1), Tail(s2))
                   ELSE Ord(s1[1]) < Ord(s2[1])

(***************************************************************************)
(* Numbers: a float is the rational n / d with d > 0                       *)
(***************************************************************************)
Num(n, d) == [isNone |-> FALSE, n |-> n, d |-> d]

None == [isNone |-> TRUE, n |-> 0, d |-> 1]

NumLe(a, b) == a.n * b.d <= b.n * a.d

NumGe(a, b) == a.n * b.d >= b.n * a.d

NumEq(a, b) == a.n * b.d = b.n * a.d

NumLt(a, b) == a.n * b.d < b.n * a.d

RECURSIVE Pow10(_)
Pow10(k) == IF k = 0 THEN 1 ELSE 10 * Pow10(k - 1)

\* the value of a run of decimal digits
RECURSIVE DigitsVal(_)
DigitsVal(s) == IF Len(s) = 0 THEN 0
                ELSE DigitsVal(SubSeq(s, 1, Len(s) - 1)) * 10 + DigitVal(s[Len(s)])

\* a result of a call: exc is "none" or the name of the exception raised
Ok(v) == [exc |-> "none", val |-> v]

Raise(e, v) == [exc |-> e, val |-> v]

\* float(s) for the decimal literals [+-]digits[.digits] (one digit at least);
\* every other string of the model's alphabet raises ValueError
FloatBody(s) ==
  LET literal(ip, rest) ==
        IF Len(rest) = 0
        THEN (IF Len(ip) = 0 THEN Raise("ValueError", None) ELSE Ok(Num(DigitsVal(ip), 1)))
        ELSE IF \/ rest[1] # "."
                \/ RunLen(Tail(rest), "digit") # Len(rest) - 1
                \/ Len(ip) + Len(rest) = 1
        THEN Raise("ValueError", None)
        ELSE Ok(Num(DigitsVal(ip \o Tail(rest)), Pow10(Len(rest) - 1)))
      split(a) == literal(SubSeq(s, 1, a), From(s, a))
  IN split(RunLen(s, "digit"))

Float(s) ==
  LET signed(r, neg) == IF neg /\ r.exc = "none" THEN Ok(Num(0 - r.val.n, r.val.d)) ELSE r
  IN signed(FloatBody(IF Len(s) > 0 /\ s[1] \in {"+", "-"} THEN Tail(s) ELSE s),
            Len(s) > 0 /\ s[1] = "-")

\* int(s) for [+-]digits; every other string raises ValueError
IntOf(s) ==
  LET digits(body, neg) ==
        IF Len(body) = 0 \/ RunLen(body, "digit") # Len(body)
        THEN Raise("ValueError", 0)
        ELSE Ok((IF neg THEN 0 - 1 ELSE 1) * DigitsVal(body))
  IN digits(IF Len(s) > 0 /\ s[1] \in {"+", "-"} THEN Tail(s) ELSE s,
            Len(s) > 0 /\ s[1] = "-")

(***************************************************************************)
(* Magnitude parsers                                                       *)
(***************************************************************************)
\* re.match(r'(\d+\.?\d*)([a-zA-Z]+)', size_str): the lengths of the two groups,
\* <<0, 0>> when there is no match
SizeRegex(s) ==
  LET groups(k, u) == IF u = 0 THEN <<0, 0>> ELSE <<k, u>>
      unit(k) == groups(k, RunLen(From(s, k), "alpha"))
      frac(k) == unit(k + RunLen(From(s, k), "digit"))
      dot(a) == IF a = 0 THEN <<0, 0>>
                ELSE frac(IF Len(s) > a /\ s[a + 1] = "." THEN a + 1 ELSE a)
  IN dot(RunLen(s, "digit"))

\* mutant: the unit is compared as written
parse_size_cased(size_str) ==
  LET scaled(value, unit) ==
        IF unit = <<"b">> THEN value
        ELSE IF unit = <<"m">> THEN Num(value.n, value.d * 1000)
        ELSE IF unit = <<"k">> THEN Num(value.n, value.d * 1000000)
        ELSE value
      parsed(g) ==
        IF g[1] = 0 THEN None
        ELSE scaled(Float(SubSeq(size_str, 1, g[1])).val,
                    SubSeq(size_str, g[1] + 1, g[1] + g[2]))
  IN parsed(SizeRegex(size_str))

parse_size(size_str) ==
  LET scaled(value, unit) ==
        IF unit = <<"b">> THEN value
        ELSE IF unit = <<"m">> THEN Num(value.n, value.d * 1000)
        ELSE IF unit = <<"k">> THEN Num(value.n, value.d * 1000000)
        ELSE value
      parsed(g) ==
        IF g[1] = 0 THEN None
        ELSE scaled(Float(SubSeq(size_str, 1, g[1])).val,
                    Lower(SubSeq(size_str, g[1] + 1, g[1] + g[2])))
  IN parsed(SizeRegex(size_str))

\* the branch a filter takes: '+' is >=, '-' is <=, anything else is ==
Comparator(filter) ==
  IF StartsWith(filter, <<"+">>) THEN "ge"
  ELSE IF StartsWith(filter, <<"-">>) THEN "le"
  ELSE "eq"

\* the text handed to the parser: filter[1:] after '+' or '-', else the filter
Threshold(filter) == IF Comparator(filter) = "eq" THEN filter ELSE Tail(filter)

\* a >= b, a <= b or a == b
NumCmp(op, a, b) ==
  CASE op = "ge" -> NumGe(a, b)
    [] op = "le" -> NumLe(a, b)
    [] OTHER -> NumEq(a, b)

\* one comparison of size_matches_filter: val is the boolean returned
size_matches_filter(size_str, size_filter) ==
  LET compare(size_value, f) ==
        IF size_value.isNone THEN Ok(FALSE)
        ELSE IF f.exc # "none" THEN Raise(f.exc, FALSE)
        ELSE Ok(NumCmp(Comparator(size_filter), size_value, f.val))
  IN IF Len(size_filter) = 0 THEN Ok(TRUE)
     ELSE compare(parse_size(size_str), Float(Threshold(size_filter)))

\* re.match(r'([\d.]+)([KMB]?)', pull_count), then float() and the multiplier
parse_pull_count(pull_count) ==
  LET mult(rest) ==
        IF Len(rest) = 0 THEN 1
        ELSE CASE rest[1] = "K" -> 1000
               [] rest[1] = "M" -> 1000000
               [] rest[1] = "B" -> 1000000000
               [] OTHER -> 1
      scaled(f, m) == IF f.exc # "none" THEN Raise(f.exc, None)
                      ELSE Ok(Num(f.val.n * m, f.val.d))
      split(a) == IF a = 0 THEN Ok(Num(0, 1))
                  ELSE scaled(Float(SubSeq(pull_count, 1, a)), mult(From(pull_count, a)))
  IN split(RunLen(pull_count, "digitdot"))

\* the 'top' branch returns True; the '+' and '-' branches call parse_pull_count
\* unguarded, the last branch catches its ValueError and returns False
popularity_matches_filter(pull_count, popularity_filter) ==
  LET compare(numeric_pull_count, f) ==
        IF numeric_pull_count.exc # "none" THEN Raise(numeric_pull_count.exc, FALSE)
        ELSE IF StartsWith(popularity_filter, <<"t", "o", "p">>) THEN Ok(TRUE)
        ELSE IF f.exc # "none"
             THEN (IF Comparator(popularity_filter) = "eq" THEN Ok(FALSE)
                   ELSE Raise(f.exc, FALSE))
        ELSE Ok(NumCmp(Comparator(popularity_filter), numeric_pull_count.val, f.val))
  IN IF Len(popularity_filter) = 0 THEN Ok(TRUE)
     ELSE compare(parse_pull_count(pull_count),
                  parse_pull_count(Threshold(popularity_filter)))

(***************************************************************************)
(* Dates.  A datetime is [y, m, d, h, aware]; aware says whether it carries *)
(* a time zone (always UTC here).  The text of a date is abstracted to what *)
(* the parsers make of it: k = "abs" is a text dateutil parses to dt,       *)
(* k = "rel" is '<n> <unit> ago', k = "junk" is a text neither parser       *)
(* accepts, k = "empty" is '' and k = "absent" is a missing 'updated' key.  *)
(***************************************************************************)
DT(y, m, d, h, aware) == [isNone |-> FALSE, y |-> y, m |-> m, d |-> d, h |-> h, aware |-> aware]

NoneDT == [isNone |-> TRUE, y |-> 0, m |-> 0, d |-> 0, h |-> 0, aware |-> FALSE]

DateText(k, dt, n, unit) == [k |-> k, dt |-> dt, n |-> n, unit |-> unit]

AbsText(dt) == DateText("abs", dt, 0, "")

RelText(n, unit) == DateText("rel", NoneDT, n, unit)

JunkText == DateText("junk", NoneDT, 0, "")

EmptyText == DateText("empty", NoneDT, 0, "")

AbsentText == DateText("absent", NoneDT, 0, "")

\* datetime.datetime(1970, 1, 1)
Epoch == DT(1970, 1, 1, 0, FALSE)

IsLeap(y) == y % 4 = 0 /\ (y % 100 # 0 \/ y % 400 = 0)

DaysInMonth(y, m) == IF m = 2 THEN (IF IsLeap(y) THEN 29 ELSE 28)
                     ELSE IF m \in {4, 6, 9, 11} THEN 30 ELSE 31

\* dt - relativedelta(days=n)
RECURSIVE MinusDays(_, _)
MinusDays(dt, n) ==
  IF n = 0 THEN dt
  ELSE IF dt.d > 1 THEN MinusDays([dt EXCEPT !.d = dt.d - 1], n - 1)
  ELSE IF dt.m > 1
       THEN MinusDays([dt EXCEPT !.m = dt.m - 1, !.d = DaysInMonth(dt.y, dt.m - 1)], n - 1)
  ELSE MinusDays([dt EXCEPT !.y = dt.y - 1, !.m = 12, !.d = 31], n - 1)

\* dt - relativedelta(months=n): calendar months, the day clipped to the month
MinusMonths(dt, n) ==
  LET total == dt.y * 12 + (dt.m - 1) - n
      y == total \div 12
      m == (total % 12) + 1
      d == IF dt.d > DaysInMonth(y, m) THEN DaysInMonth(y, m) ELSE dt.d
  IN [dt EXCEPT !.y = y, !.m = m, !.d = d]

\* the naive/aware comparison of two datetimes: TypeError when they are mixed
DtCmp(a, b) ==
  IF a.aware # b.aware THEN Raise("TypeError", 0)
  ELSE Ok(IF a.y # b.y THEN (IF a.y < b.y THEN 0 - 1 ELSE 1)
          ELSE IF a.m # b.m THEN (IF a.m < b.m THEN 0 - 1 ELSE 1)
          ELSE IF a.d # b.d THEN (IF a.d < b.d THEN 0 - 1 ELSE 1)
          ELSE IF a.h # b.h THEN (IF a.h < b.h THEN 0 - 1 ELSE 1)
          ELSE 0)

\* dateutil.parser.parse(text)
dateutil_parse(text) ==
  IF text.k = "abs" THEN Ok(text.dt) ELSE Raise("ValueError", NoneDT)

\* parse_date_string(date_str) evaluated when datetime.now() is clock
parse_date_string(date_str, clock) ==
  LET ago(kind, n) == IF kind = "days" THEN MinusDays(clock, n)
                      ELSE IF kind = "months" THEN MinusMonths(clock, n)
                      ELSE NoneDT
      relative(unit, n) ==
        CASE unit \in {"day", "days"} -> ago("days", n)
          [] unit \in {"week", "weeks"} -> ago("days", 7 * n)
          [] unit \in {"month", "months"} -> ago("months", n)
          [] unit \in {"year", "years"} -> ago("months", 12 * n)
          [] OTHER -> NoneDT
      fallback(parsed) ==
        IF parsed.exc = "none" THEN parsed.val
        ELSE IF date_str.k = "rel" THEN relative(date_str.unit, date_str.n)
        ELSE NoneDT
  IN IF date_str.k \in {"empty", "absent"} THEN NoneDT
     ELSE fallback(dateutil_parse(date_str))

\* an update filter is its prefix up to and including ':' (the empty string for
\* a bare expression) and the date text after it
UpdateFilter(prefix, expr) == [prefix |-> prefix, expr |-> expr]

NoUpdateFilter == UpdateFilter(<<>>, EmptyText)

SincePfx == <<"s", "i", "n", "c", "e", ":">>

AfterPfx == <<"a", "f", "t", "e", "r", ":">>

BeforePfx == <<"b", "e", "f", "o", "r", "e", ":">>

UntilPfx == <<"u", "n", "t", "i", "l", ":">>

OnPfx == <<"o", "n", ":">>

\* bool(date_filter)
FilterGiven(date_filter) == ~(date_filter.prefix = <<>> /\ date_filter.expr.k = "empty")

\* mutant: the comparisons are strict
DateBranchStrict(model_date, filter_date, op) ==
  IF filter_date.isNone THEN Ok(TRUE)
  ELSE IF op = "on"
       THEN Ok(model_date.y = filter_date.y /\ model_date.m = filter_date.m
               /\ model_date.d = filter_date.d)
  ELSE LET c == DtCmp(model_date, filter_date)
       IN IF c.exc # "none" THEN Ok(TRUE)
          ELSE IF op = "ge" THEN Ok(c.val > 0) ELSE Ok(c.val < 0)

\* mutant: a reference that does not parse rejects the record
DateBranchClosed(model_date, filter_date, op) ==
  IF filter_date.isNone THEN Ok(FALSE)
  ELSE IF op = "on"
       THEN Ok(model_date.y = filter_date.y /\ model_date.m = filter_date.m
               /\ model_date.d = filter_date.d)
  ELSE LET c == DtCmp(model_date, filter_date)
       IN IF c.exc # "none" THEN Ok(TRUE)
          ELSE IF op = "ge" THEN Ok(c.val >= 0) ELSE Ok(c.val <= 0)

\* the comparison of one branch of date_matches_filter
DateBranch(model_date, filter_date, op) ==
  IF filter_date.isNone THEN Ok(TRUE)
  ELSE IF op = "on"
       THEN Ok(model_date.y = filter_date.y /\ model_date.m = filter_date.m
               /\ model_date.d = filter_date.d)
  ELSE LET c == DtCmp(model_date, filter_date)
       IN IF c.exc # "none" THEN Ok(TRUE)
          ELSE IF op = "ge" THEN Ok(c.val >= 0) ELSE Ok(c.val <= 0)

\* the branch a prefix selects; a bare expression is compared like 'since:'
BranchOf(prefix) ==
  IF prefix \in {SincePfx, AfterPfx} THEN "ge"
  ELSE IF prefix \in {BeforePfx, UntilPfx} THEN "le"
  ELSE IF prefix = OnPfx THEN "on"
  ELSE "ge"

date_matches_filter(updated_date, date_filter, clock) ==
  LET branch(model_date) ==
        IF model_date.exc # "none" THEN Ok(TRUE)
        ELSE DateBranch(model_date.val, parse_date_string(date_filter.expr, clock),
                        BranchOf(date_filter.prefix))
  IN IF ~FilterGiven(date_filter) \/ updated_date.k \in {"empty", "absent"} THEN Ok(TRUE)
     ELSE branch(dateutil_parse(updated_date))

(***************************************************************************)
(* Records of the catalog and the command line                             *)
(***************************************************************************)
\* one model file; has_pull says whether the 'pull_count' key is present, an
\* 'updated' key that is missing is the date text "absent"
Rec(model, capabilities, sizes, has_pull, pull_count, updated) ==
  [model |-> model, capabilities |-> capabilities, sizes |-> sizes,
   has_pull |-> has_pull, pull_count |-> pull_count, updated |-> updated,
   has_matched |-> FALSE, matched_sizes |-> <<>>]

\* x.get('pull_count', '0')
PullOf(x) == IF x.has_pull THEN x.pull_count ELSE <<"0">>

\* one use of an option on the command line: the dimension, the form it is
\* written in, the characters of its value, and for --updated the date text
\* that follows the prefix held in text
Use(dim, form, text, date) == [dim |-> dim, form |-> form, text |-> text, date |-> date]

LongName(dim) ==
  CASE dim = "name" -> <<"n", "a", "m", "e">>
    [] dim = "capability" -> <<"c", "a", "p", "a", "b", "i", "l", "i", "t", "y">>
    [] dim = "size" -> <<"s", "i", "z", "e">>
    [] dim = "popularity" -> <<"p", "o", "p", "u", "l", "a", "r", "i", "t", "y">>
    [] dim = "updated" -> <<"u", "p", "d", "a", "t", "e", "d">>
    [] dim = "all" -> <<"a", "l", "l">>
    [] dim = "long" -> <<"l", "o", "n", "g">>
    [] dim = "debug" -> <<"d", "e", "b", "u", "g">>

Dimensions == {"name", "capability", "size", "popularity", "updated"}

\* the options with action='store_true' that a query can carry
Switches == {"all", "long", "debug"}

\* the argv tokens of one use: '--name v', '-n v', '--name=v', '-nv', '--nam v'
Tokens(u) ==
  LET long == LongName(u.dim)
  IN IF u.dim \in Switches
     THEN <<(IF u.form = "short" THEN <<"-", long[1]>> ELSE <<"-", "-">> \o long)>>
     ELSE CASE u.form = "long" -> << <<"-", "-">> \o long, u.text >>
            [] u.form = "short" -> << <<"-", long[1]>>, u.text >>
            [] u.form = "eq" -> << <<"-", "-">> \o long \o <<"=">> \o u.text >>
            [] u.form = "attached" -> << <<"-", long[1]>> \o u.text >>
            [] u.form = "abbrev" -> << <<"-", "-">> \o SubSeq(long, 1, Len(long) - 1), u.text >>

RECURSIVE Render(_)
Render(uses) == IF Len(uses) = 0 THEN <<>> ELSE Tokens(uses[1]) \o Render(Tail(uses))

\* argparse's test for a value written as its own token: a token that starts
\* with '-' is taken for an option unless it looks like a negative number
NegNumLike(t) ==
  /\ Len(t) > 1
  /\ t[1] = "-"
  /\ LET a == RunLen(Tail(t), "digit")
         rest == From(Tail(t), a)
     IN \/ (a > 0 /\ Len(rest) = 0)
        \/ (Len(rest) > 1 /\ rest[1] = "." /\ RunLen(Tail(rest), "digit") = Len(rest) - 1)

\* whether parser.parse_args() accepts the use as written
Accepted(u) ==
  \/ u.dim = "all"
  \/ u.dim \in Switches /\ u.form = "long"
  \/ /\ u.dim \in Dimensions
     /\ u.form \in {"long", "short", "abbrev"} => (~StartsWith(u.text, <<"-">>) \/ NegNumLike(u.text))
     /\ u.form = "attached" => Len(u.text) > 0
     \* '--update' is an option of its own, so '--updated' has no abbreviation
     /\ u.form = "abbrev" => u.dim # "updated"

\* the last use of a dimension, or the default when there is none
RECURSIVE LastText(_, _)
LastText(uses, dim) ==
  IF Len(uses) = 0 THEN <<>>
  ELSE IF uses[Len(uses)].dim = dim THEN uses[Len(uses)].text
  ELSE LastText(SubSeq(uses, 1, Len(uses) - 1), dim)

RECURSIVE LastFilter(_)
LastFilter(uses) ==
  IF Len(uses) = 0 THEN NoUpdateFilter
  ELSE IF uses[Len(uses)].dim = "updated"
       THEN UpdateFilter(uses[Len(uses)].text, uses[Len(uses)].date)
  ELSE LastFilter(SubSeq(uses, 1, Len(uses) - 1))

\* action='append'
RECURSIVE Appended(_, _)
Appended(uses, dim) ==
  IF Len(uses) = 0 THEN <<>>
  ELSE (IF uses[1].dim = dim THEN <<uses[1].text>> ELSE <<>>) \o Appended(Tail(uses), dim)

\* args = parser.parse_args(): None and '' are both written <<>> (the code
\* only tests the truth of an argument before it uses it)
parse_args(uses) ==
  [name |-> LastText(uses, "name"),
   capability |-> LastText(uses, "capability"),
   size |-> Appended(uses, "size"),
   popularity |-> LastText(uses, "popularity"),
   updated |-> LastFilter(uses),
   all |-> \E i \in 1..Len(uses) : uses[i].dim = "all",
   long |-> \E i \in 1..Len(uses) : uses[i].dim = "long",
   debug |-> \E i \in 1..Len(uses) : uses[i].dim = "debug"]

NoArgs == parse_args(<<>>)

\* mutant: the entry of --debug is taken for the entry of --name
ArgNameDebug(arg) ==
  LET arg_name == SplitFirst(LStrip(arg, "-"), "=")
  IN CASE arg_name = <<"n">> -> LongName("name")
       [] arg_name = <<"c">> -> LongName("capability")
       [] arg_name = <<"s">> -> LongName("size")
       [] arg_name = <<"p">> -> LongName("popularity")
       [] arg_name = <<"u">> -> LongName("updated")
       [] arg_name = LongName("debug") -> LongName("name")
       [] OTHER -> arg_name

\* the loop over sys.argv[1:] that fills arg_order
ArgName(arg) ==
  LET arg_name == SplitFirst(LStrip(arg, "-"), "=")
  IN CASE arg_name = <<"n">> -> LongName("name")
       [] arg_name = <<"c">> -> LongName("capability")
       [] arg_name = <<"s">> -> LongName("size")
       [] arg_name = <<"p">> -> LongName("popularity")
       [] arg_name = <<"u">> -> LongName("updated")
       [] OTHER -> arg_name

RECURSIVE track_arg_order(_)
track_arg_order(tokens) ==
  IF Len(tokens) = 0 THEN <<>>
  ELSE (IF StartsWith(tokens[1], <<"-">>) THEN <<ArgName(tokens[1])>> ELSE <<>>)
       \o track_arg_order(Tail(tokens))

(***************************************************************************)
(* Sort resolver and sorting                                               *)
(***************************************************************************)
SortOrder(key, reverse) == [key |-> key, reverse |-> reverse]

\* whether the argument of a dimension is true in Python's sense
ArgGiven(args, dim) ==
  CASE dim = "name" -> Len(args.name) > 0
    [] dim = "capability" -> Len(args.capability) > 0
    [] dim = "size" -> Len(args.size) > 0
    [] dim = "popularity" -> Len(args.popularity) > 0
    [] dim = "updated" -> FilterGiven(args.updated)
    [] OTHER -> FALSE

\* the direction each branch of determine_sort_order returns
ReverseOf(dim) == dim \in {"popularity", "updated", "capability"}

\* the dimension an entry of arg_order names, "" when it names none
DimOf(arg_name) ==
  IF \E dim \in Dimensions : LongName(dim) = arg_name
  THEN CHOOSE dim \in Dimensions : LongName(dim) = arg_name
  ELSE ""

\* mutant: the first entry of arg_order decides instead of the last
RECURSIVE determine_sort_order_first(_, _)
determine_sort_order_first(order, args) ==
  IF Len(order) = 0 THEN SortOrder("default", FALSE)
  ELSE LET dim == DimOf(order[1])
       IN IF dim # "" /\ ArgGiven(args, dim) THEN SortOrder(dim, ReverseOf(dim))
          ELSE determine_sort_order_first(Tail(order), args)

RECURSIVE determine_sort_order(_, _)
determine_sort_order(order, args) ==
  IF Len(order) = 0 THEN SortOrder("default", FALSE)
  ELSE LET dim == DimOf(order[Len(order)])
       IN IF dim # "" /\ ArgGiven(args, dim) THEN SortOrder(dim, ReverseOf(dim))
          ELSE determine_sort_order(SubSeq(order, 1, Len(order) - 1), args)

RECURSIVE Gcd(_, _)
Gcd(a, b) == IF b = 0 THEN a ELSE Gcd(b, a % b)

NumAdd(a, b) ==
  LET n == a.n * b.d + b.n * a.d
      d == a.d * b.d
      g == IF n = 0 THEN d ELSE Gcd(IF n < 0 THEN 0 - n ELSE n, d)
  IN Num(n \div g, d \div g)

\* the sizes of a record that parse_size can read
RECURSIVE Parsable(_)
Parsable(sizes) ==
  LET kept(v) == IF v.isNone THEN <<>> ELSE <<v>>
  IN IF Len(sizes) = 0 THEN <<>>
     ELSE kept(parse_size(sizes[1])) \o Parsable(Tail(sizes))

RECURSIVE SumNums(_)
SumNums(nums) == IF Len(nums) = 0 THEN Num(0, 1) ELSE NumAdd(nums[1], SumNums(Tail(nums)))

\* sum(...) / max(1, len(...)) of the size branch
MeanSize(x) ==
  LET over(total, count) == Num(total.n, total.d * (IF count = 0 THEN 1 ELSE count))
      mean(ps) == over(SumNums(ps), Len(ps))
  IN mean(Parsable(x.sizes))

\* mutant: the capability is compared without lower()
HasCapabilityCased(x, capability) ==
  \E i \in 1..Len(x.capabilities) : Contains(x.capabilities[i], capability)

\* any(capability in cap.lower() for cap in capabilities)
HasCapability(x, capability) ==
  \E i \in 1..Len(x.capabilities) : Contains(Lower(x.capabilities[i]), Lower(capability))

\* the datetime of the updated branch
UpdatedKey(x) ==
  IF x.updated.k \in {"absent", "empty"} THEN Ok(Epoch) ELSE dateutil_parse(x.updated)

\* the exception the key function raises on a record, "none" when it returns
KeyExc(key, x) ==
  CASE key = "popularity" -> parse_pull_count(PullOf(x)).exc
    [] key = "updated" -> UpdatedKey(x).exc
    [] OTHER -> "none"

\* (flag, string) < (flag, string), False before True
PairLess(f1, s1, f2, s2) == IF f1 # f2 THEN f2 ELSE StrLess(s1, s2)

\* mutant: the capability key is the lower-case id alone
KeyLessById(key, args, a, b) ==
  CASE key = "popularity" ->
         NumLt(parse_pull_count(PullOf(a)).val, parse_pull_count(PullOf(b)).val)
    [] key = "size" -> NumLt(MeanSize(a), MeanSize(b))
    [] key = "updated" -> DtCmp(UpdatedKey(a).val, UpdatedKey(b).val).val < 0
    [] key = "name" ->
         PairLess(~Contains(Lower(a.model), Lower(args.name)), Lower(a.model),
                  ~Contains(Lower(b.model), Lower(args.name)), Lower(b.model))
    [] OTHER -> StrLess(Lower(a.model), Lower(b.model))

\* key(a) < key(b) for two records whose keys were computed
KeyLess(key, args, a, b) ==
  CASE key = "popularity" ->
         NumLt(parse_pull_count(PullOf(a)).val, parse_pull_count(PullOf(b)).val)
    [] key = "size" -> NumLt(MeanSize(a), MeanSize(b))
    [] key = "updated" -> DtCmp(UpdatedKey(a).val, UpdatedKey(b).val).val < 0
    [] key = "capability" ->
         PairLess(HasCapability(a, args.capability), Lower(a.model),
                  HasCapability(b, args.capability), Lower(b.model))
    [] key = "name" ->
         PairLess(~Contains(Lower(a.model), Lower(args.name)), Lower(a.model),
                  ~Contains(Lower(b.model), Lower(args.name)), Lower(b.model))
    [] OTHER -> StrLess(Lower(a.model), Lower(b.model))

\* whether a placed before b by list.sort(key=..., reverse=...)
Before(order, args, a, b) ==
  IF order.reverse THEN KeyLess(order.key, args, b, a) ELSE KeyLess(order.key, args, a, b)

\* list.sort(): a stable sort, records with equal keys keep their order
StableSort(seq, order, args) ==
  LET n == Len(seq)
      pos(i) == 1 + Cardinality({j \in 1..n :
                      \/ Before(order, args, seq[j], seq[i])
                      \/ (j < i /\ ~Before(order, args, seq[i], seq[j]))})
  IN [p \in 1..n |-> seq[CHOOSE i \in 1..n : pos(i) = p]]

\* the exception list.sort raises: the first key that cannot be computed, or
\* the comparison of a naive with an aware datetime
SortExc(seq, order) ==
  IF \E i \in 1..Len(seq) : KeyExc(order.key, seq[i]) # "none"
  THEN KeyExc(order.key, seq[CHOOSE i \in 1..Len(seq) : KeyExc(order.key, seq[i]) # "none"])
  ELSE IF order.key = "updated"
          /\ \E i, j \in 1..Len(seq) : UpdatedKey(seq[i]).val.aware # UpdatedKey(seq[j]).val.aware
       THEN "TypeError"
  ELSE "none"

\* the orders list.sort can leave behind: the sorted list, the untouched list
\* when a key raised (keys are computed before any element moves), and any
\* arrangement of the elements when a comparison raised half way
SortOutcomes(seq, order, args) ==
  LET e == SortExc(seq, order)
  IN IF e = "none" THEN {StableSort(seq, order, args)}
     ELSE IF \E i \in 1..Len(seq) : KeyExc(order.key, seq[i]) # "none" THEN {seq}
     ELSE {[p \in 1..Len(seq) |-> seq[f[p]]] : f \in Permutations(1..Len(seq))}

\* mutant: the slice keeps the end of the list, seq[-n:]
SliceTail(seq, n) ==
  IF n > 0 THEN SubSeq(seq, (IF n < Len(seq) THEN Len(seq) - n ELSE 0) + 1, Len(seq))
  ELSE seq

\* seq[:n]
Slice(seq, n) ==
  IF n >= 0 THEN SubSeq(seq, 1, IF n < Len(seq) THEN n ELSE Len(seq))
  ELSE SubSeq(seq, 1, IF Len(seq) + n > 0 THEN Len(seq) + n ELSE 0)

(***************************************************************************)
(* The body of the loop of main() over the model files                     *)
(***************************************************************************)
\* mutant: only the first size filter is looked at
MatchesFirstFilter(size, filters) ==
  IF Len(filters) = 0 THEN Ok(TRUE) ELSE size_matches_filter(size, filters[1])

\* mutant: only the size filter written last is looked at
MatchesLastFilter(size, filters) ==
  IF Len(filters) = 0 THEN Ok(TRUE) ELSE size_matches_filter(size, filters[Len(filters)])

\* the inner loop over args.size with its break: val is matches_all_filters
RECURSIVE MatchesAllFilters(_, _)
MatchesAllFilters(size, filters) ==
  LET step(r) == IF r.exc # "none" THEN r
                 ELSE IF ~r.val THEN Ok(FALSE)
                 ELSE MatchesAllFilters(size, Tail(filters))
  IN IF Len(filters) = 0 THEN Ok(TRUE)
     ELSE step(size_matches_filter(size, filters[1]))

\* the loop that builds matched_sizes
RECURSIVE MatchedSizes(_, _)
MatchedSizes(sizes, filters) ==
  LET step(r, rest) ==
        IF r.exc # "none" THEN Raise(r.exc, <<>>)
        ELSE IF rest.exc # "none" THEN rest
        ELSE Ok((IF r.val THEN <<sizes[1]>> ELSE <<>>) \o rest.val)
  IN IF Len(sizes) = 0 THEN Ok(<<>>)
     ELSE step(MatchesAllFilters(sizes[1], filters), MatchedSizes(Tail(sizes), filters))

\* the name, capability and popularity checks of one iteration, each made only
\* when the ones before it matched: val is their conjunction
EarlyMatch(x, args) ==
  LET name_match == Len(args.name) > 0 => Contains(Lower(x.model), Lower(args.name))
      capability_match(earlier) ==
        earlier /\ (Len(args.capability) > 0 => HasCapability(x, args.capability))
      popularity_match(earlier) ==
        IF earlier /\ Len(args.popularity) > 0
                   /\ ~StartsWith(args.popularity, <<"t", "o", "p">>)
        THEN popularity_matches_filter(PullOf(x), args.popularity)
        ELSE Ok(earlier)
  IN popularity_match(capability_match(name_match))

\* the four checks of one iteration: the update check is made only when the
\* first three matched and the record has an 'updated' key
BasicMatch(x, args, clock) ==
  LET update_match(earlier) ==
        IF earlier.exc # "none" THEN Raise(earlier.exc, FALSE)
        ELSE IF earlier.val /\ FilterGiven(args.updated) /\ x.updated.k # "absent"
        THEN date_matches_filter(x.updated, args.updated, clock)
        ELSE earlier
  IN update_match(EarlyMatch(x, args))

\* one iteration: exc is the exception that escapes it, keep says whether the
\* record is appended to matches, rec is the record appended
ProcessOne(x, args, clock) ==
  LET sized(ms) ==
        IF ms.exc # "none" THEN [exc |-> ms.exc, keep |-> FALSE, rec |-> x]
        ELSE [exc |-> "none", keep |-> Len(ms.val) > 0,
              rec |-> [x EXCEPT !.has_matched = TRUE, !.matched_sizes = ms.val]]
      added(basic) ==
        IF basic.exc # "none" THEN [exc |-> basic.exc, keep |-> FALSE, rec |-> x]
        ELSE IF basic.val /\ Len(args.size) > 0
        THEN sized(MatchedSizes(x.sizes, args.size))
        ELSE [exc |-> "none", keep |-> basic.val, rec |-> x]
  IN IF args.all THEN [exc |-> "none", keep |-> TRUE, rec |-> x]
     ELSE added(BasicMatch(x, args, clock))

(***************************************************************************)
(* What one iteration writes to the diagnostic stream with --debug, and    *)
(* the reference instants it computes                                      *)
(***************************************************************************)
\* the DEBUG lines of one call of size_matches_filter that returns
size_debug_lines(size_str, size_filter) ==
  LET lines(size_value, f) == IF size_value.isNone \/ f.exc # "none" THEN 1 ELSE 2
  IN IF Len(size_filter) = 0 THEN 0
     ELSE lines(parse_size(size_str), Float(Threshold(size_filter)))

\* the DEBUG lines of the inner loop over args.size for one size, up to its
\* break, and the line that says whether the size matched
RECURSIVE FiltersDebugLines(_, _)
FiltersDebugLines(size, filters) ==
  LET step(r) == IF r.exc = "none" /\ r.val
                 THEN FiltersDebugLines(size, Tail(filters))
                 ELSE 1
  IN IF Len(filters) = 0 THEN 1
     ELSE size_debug_lines(size, filters[1]) + step(size_matches_filter(size, filters[1]))

RECURSIVE SizesDebugLines(_, _)
SizesDebugLines(sizes, filters) ==
  IF Len(sizes) = 0 THEN 0
  ELSE FiltersDebugLines(sizes[1], filters) + SizesDebugLines(Tail(sizes), filters)

\* whether an iteration reaches parse_date_string: the first three checks
\* matched, a filter is given and the record's 'updated' parses
ReachesReference(x, args) ==
  LET reached(early) == early.exc = "none" /\ early.val
  IN /\ ~args.all
     /\ FilterGiven(args.updated)
     /\ x.updated.k \notin {"absent", "empty"}
     /\ dateutil_parse(x.updated).exc = "none"
     /\ reached(EarlyMatch(x, args))

\* the DEBUG lines of date_matches_filter and of parse_date_string
date_debug_lines(updated_date, date_filter, clock) ==
  LET compared(filter_date) == IF filter_date.isNone THEN 0 ELSE 1
      unparsed(expr) == IF expr.k = "junk" THEN 1 ELSE 0
  IN IF ~FilterGiven(date_filter) \/ updated_date.k \in {"empty", "absent"} THEN 0
     ELSE IF dateutil_parse(updated_date).exc # "none" THEN 1
     ELSE 1 + unparsed(date_filter.expr)
            + compared(parse_date_string(date_filter.expr, clock))

\* the DEBUG lines of one iteration that ends without an exception
DebugLines(x, args, clock) ==
  LET dated(early) ==
        IF early.exc # "none" \/ ~early.val \/ ~FilterGiven(args.updated) THEN 0
        ELSE IF x.updated.k = "absent" THEN 1
        ELSE date_debug_lines(x.updated, args.updated, clock)
      sized(basic) ==
        IF basic.exc = "none" /\ basic.val /\ Len(args.size) > 0
        THEN SizesDebugLines(x.sizes, args.size)
        ELSE 0
  IN IF ~args.debug \/ args.all THEN 0
     ELSE dated(EarlyMatch(x, args)) + sized(BasicMatch(x, args, clock))

\* the reference instants parse_date_string returns in one iteration
ReferencesOf(x, args, clock) ==
  IF ReachesReference(x, args)
  THEN {parse_date_string(args.updated.expr, clock)} \ {NoneDT}
  ELSE {}

(***************************************************************************)
(* Output: the table of --long and the flat lines                          *)
(***************************************************************************)
\* sep.join(parts)
RECURSIVE Join(_, _)
Join(parts, sep) ==
  IF Len(parts) = 0 THEN <<>>
  ELSE IF Len(parts) = 1 THEN parts[1]
  ELSE parts[1] \o sep \o Join(Tail(parts), sep)

\* the decimal digits of n, zero-padded to w characters
RECURSIVE Decimal(_, _)
Decimal(n, w) == IF w = 0 THEN <<>> ELSE Decimal(n \div 10, w - 1) \o <<Digits[(n % 10) + 1]>>

\* the text of an 'updated' field as ollama-update-models writes it:
\* '%Y-%m-%d %H:%M:%S', followed by the offset when the instant has a zone
Written(updated) ==
  CASE updated.k = "abs" ->
         Decimal(updated.dt.y, 4) \o <<"-">> \o Decimal(updated.dt.m, 2) \o <<"-">>
           \o Decimal(updated.dt.d, 2) \o <<" ">> \o Decimal(updated.dt.h, 2)
           \o <<":", "0", "0", ":", "0", "0">>
           \o (IF updated.dt.aware THEN <<"+", "0", "0", ":", "0", "0">> ELSE <<>>)
    [] updated.k = "junk" -> <<"s", "o", "o", "n">>
    [] OTHER -> <<>>

headers == << <<"M", "o", "d", "e", "l">>, <<"S", "i", "z", "e">>, <<"P", "o", "p", ".">>,
              <<"U", "p", "d", "a", "t", "e">>,
              <<"C", "a", "p", "a", "b", "i", "l", "i", "t", "i", "e", "s">> >>

widths == <<25, 29, 8, 18, 17>>

\* s.ljust(w)
Ljust(s, w) == s \o [i \in 1..(w - Len(s)) |-> " "]

\* c * w
Repeat(c, w) == [i \in 1..w |-> c]

\* the truncation marker, the one character U+2026, written as an ASCII
\* character that no text of the model holds
Ellipsis == "~"

\* mutant: a long cell is cut, with no marker
FormatCellCut(cell, width) ==
  Ljust(IF Len(cell) > width - 1 THEN SubSeq(cell, 1, width - 1) ELSE cell, width)

\* the truncation and padding of one cell of a data row
FormatCell(cell, width) ==
  Ljust(IF Len(cell) > width - 1 THEN SubSeq(cell, 1, width - 1) \o <<Ellipsis>> ELSE cell,
        width)

\* one formatted row: every cell followed by ' | '
RECURSIVE FormatRow(_, _)
FormatRow(row, i) ==
  IF i > Len(row) THEN <<>>
  ELSE FormatCell(row[i], widths[i]) \o <<" ", "|", " ">> \o FormatRow(row, i + 1)

RECURSIVE HeaderRow(_)
HeaderRow(i) ==
  IF i > Len(headers) THEN <<>>
  ELSE Ljust(headers[i], widths[i]) \o <<" ", "|", " ">> \o HeaderRow(i + 1)

RECURSIVE Separator(_)
Separator(i) ==
  IF i > Len(widths) THEN <<>>
  ELSE Repeat("-", widths[i]) \o <<"-", "+", "-">> \o Separator(i + 1)

\* the sizes a record shows in the table
TableSizes(x, sizes_only) ==
  IF sizes_only /\ x.has_matched THEN x.matched_sizes
  ELSE IF sizes_only THEN x.sizes
  ELSE IF Len(x.sizes) > 0 THEN <<Join(x.sizes, <<",", " ">>)>>
  ELSE << <<>> >>

\* the rows of one record: one per size shown
RECURSIVE RecordRows(_, _, _)
RecordRows(x, sizes, sizes_only) ==
  IF Len(sizes) = 0 THEN <<>>
  ELSE << <<(IF Len(sizes[1]) > 0 /\ sizes_only THEN x.model \o <<":">> \o sizes[1]
              ELSE x.model),
             sizes[1],
             (IF x.has_pull THEN x.pull_count ELSE <<>>),
             Written(x.updated),
             Join(x.capabilities, <<",", " ">>)>> >>
       \o RecordRows(x, Tail(sizes), sizes_only)

RECURSIVE TableRows(_, _)
TableRows(models, sizes_only) ==
  IF Len(models) = 0 THEN <<>>
  ELSE RecordRows(models[1], TableSizes(models[1], sizes_only), sizes_only)
       \o TableRows(Tail(models), sizes_only)

\* the lines of format_table(models, sizes_only)
format_table(models, sizes_only) ==
  LET formatted(rows) == [r \in 1..Len(rows) |-> FormatRow(rows[r], 1)]
  IN <<HeaderRow(1), Separator(1)>> \o formatted(TableRows(models, sizes_only))

\* the sizes a record shows in the flat output
FlatSizes(x, args) ==
  IF Len(args.size) > 0 /\ x.has_matched THEN x.matched_sizes ELSE x.sizes

\* the lines main() prints without --long
RECURSIVE FlatLines(_, _)
FlatLines(models, args) ==
  LET lines(x, sizes) == IF Len(x.sizes) = 0 THEN <<x.model>>
                         ELSE [i \in 1..Len(sizes) |-> x.model \o <<":">> \o sizes[i]]
  IN IF Len(models) = 0 THEN <<>>
     ELSE lines(models[1], FlatSizes(models[1], args)) \o FlatLines(Tail(models), args)

(***************************************************************************)
(* State                                                                   *)
(***************************************************************************)
VARIABLES
  argv,         \* the uses of options on the command line, in order
  dir_exists,   \* os.path.isdir(models_dir)
  model_files,  \* the records of the .json files in os.listdir order
  now,          \* the wall clock, as datetime.datetime.now() last returned it
  args,         \* the namespace argparse returns
  arg_order,    \* the list main() fills from sys.argv
  idx,          \* the file the loop is at
  matches,      \* the list of matching records
  survivors,    \* matches as the loop left it (history)
  sort_order,   \* the (key, reverse) determine_sort_order returned
  stdout,       \* the lines written to sys.stdout
  stderr,       \* the number of DEBUG lines written to sys.stderr
  references,   \* the instants parse_date_string returned (history)
  pc,           \* the place in main()
  exit_code     \* the exit status, -1 while running

vars == <<argv, dir_exists, model_files, now, args, arg_order, idx, matches,
          survivors, sort_order, stdout, stderr, references, pc, exit_code>>

inputs == <<argv, dir_exists, model_files>>

Running == 0 - 1

\* sys.exit(code), or the interpreter's exit after an uncaught exception
Exit(place, code) == pc' = place /\ exit_code' = code

\* the clock a query starts at
Clock == DT(2023, 6, 15, 12, FALSE)

\* the hours the clock may advance while the loop runs
MaxElapsed == 1

\* the hours gone since the start (every start of the model is at Clock's hour)
Elapsed(t) == t.h - Clock.h

\* what datetime.now() can return in an iteration after it returned t: the
\* clock does not go back; it is read only to resolve '<n> <unit> ago'
Readings(t, a) ==
  IF a.updated.expr.k = "rel" /\ ~a.all
  THEN {[t EXCEPT !.h = t.h + e] : e \in 0..(MaxElapsed - Elapsed(t))}
  ELSE {t}

(***************************************************************************)
(* Steps of main()                                                         *)
(***************************************************************************)
\* args = parser.parse_args(); argparse exits with status 2 on a command line
\* it does not accept
ParseArgs ==
  /\ pc = "start"
  /\ IF \A i \in 1..Len(argv) : Accepted(argv[i])
     THEN /\ args' = parse_args(argv)
          /\ pc' = "track"
          /\ UNCHANGED exit_code
     ELSE /\ Exit("usage", 2)
          /\ UNCHANGED args
  /\ UNCHANGED <<inputs, now, arg_order, idx, matches, survivors, sort_order,
                 stdout, stderr, references>>

\* the loop that records the order of the arguments
TrackArgOrder ==
  /\ pc = "track"
  /\ arg_order' = track_arg_order(Render(argv))
  /\ pc' = "catalog"
  /\ UNCHANGED <<inputs, now, args, idx, matches, survivors, sort_order, exit_code,
                 stdout, stderr, references>>

\* the directory must exist and hold at least one model file
CheckCatalog ==
  /\ pc = "catalog"
  /\ IF ~dir_exists \/ Len(model_files) = 0
     THEN Exit("nocatalog", 1)
     ELSE pc' = "filters" /\ UNCHANGED exit_code
  /\ UNCHANGED <<inputs, now, args, arg_order, idx, matches, survivors, sort_order,
                 stdout, stderr, references>>

\* at least one filter or --all, else the help text and status 1
CheckFilters ==
  /\ pc = "filters"
  /\ IF \/ \E dim \in Dimensions : ArgGiven(args, dim)
        \/ args.all
     THEN pc' = "loop" /\ UNCHANGED exit_code
     ELSE Exit("help", 1)
  /\ UNCHANGED <<inputs, now, args, arg_order, idx, matches, survivors, sort_order,
                 stdout, stderr, references>>

\* one iteration of the loop over model_files, at the clock it runs at
ProcessModel ==
  /\ pc = "loop"
  /\ \E clock \in Readings(now, args) :
       LET step(r) ==
             IF r.exc # "none"
             THEN /\ Exit("crashed", 1)
                  /\ UNCHANGED <<idx, matches, stderr, references>>
             ELSE /\ matches' = IF r.keep THEN Append(matches, r.rec) ELSE matches
                  /\ idx' = idx + 1
                  /\ pc' = IF idx = Len(model_files) THEN "topn" ELSE "loop"
                  /\ stderr' = stderr + DebugLines(model_files[idx], args, clock)
                  /\ references' = references \cup ReferencesOf(model_files[idx], args, clock)
                  /\ UNCHANGED exit_code
       IN /\ now' = clock
          /\ step(ProcessOne(model_files[idx], args, clock))
  /\ UNCHANGED <<inputs, args, arg_order, survivors, sort_order, stdout>>

\* the top-n block: int(), the sort by pull count, the slice; a ValueError
\* from int() or from a key of the sort ends the program with status 1
TopN ==
  /\ pc = "topn"
  /\ survivors' = matches
  /\ IF Len(args.popularity) > 0 /\ StartsWith(args.popularity, <<"t", "o", "p">>)
     THEN LET top_n == IntOf(From(args.popularity, 3))
              byPulls == SortOrder("popularity", TRUE)
          IN IF top_n.exc # "none" \/ SortExc(matches, byPulls) # "none"
             THEN /\ Exit("badtopn", 1)
                  /\ UNCHANGED matches
             ELSE /\ matches' = Slice(StableSort(matches, byPulls, args), top_n.val)
                  /\ pc' = "sort"
                  /\ UNCHANGED exit_code
     ELSE /\ pc' = "sort"
          /\ UNCHANGED <<matches, exit_code>>
  /\ UNCHANGED <<inputs, now, args, arg_order, idx, sort_order, stdout, stderr, references>>

\* the DEBUG lines of the final sort: what it sorts on, and its error
SortDebugLines(seq, order, a) ==
  IF ~a.debug THEN 0
  ELSE IF SortExc(seq, order) # "none" THEN 2
  ELSE 1

\* the final sort, every exception of which is swallowed
FinalSort ==
  /\ pc = "sort"
  /\ IF Len(matches) > 0
     THEN /\ sort_order' = determine_sort_order(arg_order, args)
          /\ matches' \in SortOutcomes(matches, sort_order', args)
          /\ stderr' = stderr + SortDebugLines(matches, sort_order', args)
     ELSE UNCHANGED <<matches, sort_order, stderr>>
  /\ pc' = "output"
  /\ UNCHANGED <<inputs, now, args, arg_order, idx, survivors, exit_code, stdout, references>>

\* what main() prints for a result
Printed(models, a) ==
  IF a.long THEN format_table(models, Len(a.size) > 0) ELSE FlatLines(models, a)

\* mutant: the status is 0 also when nothing matched
OutputAlwaysZero ==
  /\ pc = "output"
  /\ Exit("done", 0)
  /\ stdout' = Printed(matches, args)
  /\ UNCHANGED <<inputs, now, args, arg_order, idx, matches, survivors, sort_order,
                 stderr, references>>

\* no match: status 1; else the results are written and main() returns
Output ==
  /\ pc = "output"
  /\ IF Len(matches) = 0
     THEN Exit("nomatch", 1) /\ UNCHANGED stdout
     ELSE Exit("done", 0) /\ stdout' = Printed(matches, args)
  /\ UNCHANGED <<inputs, now, args, arg_order, idx, matches, survivors, sort_order,
                 stderr, references>>

Next ==
  \/ ParseArgs
  \/ TrackArgOrder
  \/ CheckCatalog
  \/ CheckFilters
  \/ ProcessModel
  \/ TopN
  \/ FinalSort
  \/ Output

(***************************************************************************)
(* Inputs                                                                  *)
(***************************************************************************)
\* the texts of the inputs, character by character
LLAMA == <<"L", "l", "a">>

MIL == <<"m", "i", "l">>

ALL == <<"a", "l", "l">>

BAD == <<"Z", "a", "p">>

VISION == <<"v", "i", "s", "i", "o", "n">>

TOOLS == <<"t", "o", "o", "l", "s">>

EMBEDDING == <<"e", "m", "b", "e", "d", "d", "i", "n", "g">>

S3B == <<"3", "b">>

S7B == <<"7", "b">>

S13B == <<"1", "3", "b">>

S70B == <<"7", "0", "b">>

LATEST == <<"l", "a", "t", "e", "s", "t">>

S500M == <<"5", "0", "0", "m">>

P33M == <<"3", ".", "3", "M">>

P500K == <<"5", "0", "0", "K">>

P123 == <<"1", ".", "2", ".", "3">>

LL == <<"L", "L">>

TOOL == <<"T", "O", "O", "L">>

PLUS4 == <<"+", "4">>

MINUS28 == <<"-", "2", "8">>

SEVEN == <<"7">>

PLUSABC == <<"+", "a", "b", "c">>

ABC == <<"a", "b", "c">>

TOP1 == <<"t", "o", "p", "1">>

TOP2 == <<"t", "o", "p", "2">>

TOPM1 == <<"t", "o", "p", "-", "1">>

TOPX == <<"t", "o", "p", "x">>

PLUS1M == <<"+", "1", "M">>

PLUS1K == <<"+", "1", "K">>

MINUS1K == <<"-", "1", "K">>

EL == <<"l">>

MaxRecords == 2

MaxFlags == 2

Naive(y, m, d, h) == AbsText(DT(y, m, d, h, FALSE))

Aware(y, m, d, h) == AbsText(DT(y, m, d, h, TRUE))

\* the model files a catalog is drawn from
Llama == Rec(LLAMA, <<VISION, TOOLS>>, <<S3B, S7B, S13B, S70B>>, TRUE, P33M, Naive(2023, 6, 1, 14))

Mistral == Rec(MIL, <<TOOLS>>, <<S7B, LATEST>>, TRUE, P500K, AbsentText)

Minilm == Rec(ALL, <<EMBEDDING>>, <<S500M>>, FALSE, <<>>, Naive(2023, 6, 2, 0))

Broken == Rec(BAD, <<>>, <<>>, TRUE, P123, JunkText)

Pool == {Llama, Mistral, Minilm, Broken}

Injective(seq) == \A i, j \in 1..Len(seq) : seq[i] = seq[j] => i = j

\* os.listdir returns the files in any order
Catalogs(pool, n) == {c \in UNION {[1..k -> pool] : k \in 0..n} : Injective(c)}

Opt(dim, text) == Use(dim, "long", text, EmptyText)

Upd(form, prefix, expr) == Use("updated", form, prefix, expr)

NameUses == {<<>>, <<Opt("name", LL)>>}

CapabilityUses == {<<>>, <<Opt("capability", TOOL)>>}

SizeUses == {<<>>, <<Opt("size", PLUS4), Opt("size", MINUS28)>>, <<Opt("size", SEVEN)>>,
             <<Opt("size", <<>>)>>, <<Opt("size", <<>>), Opt("size", PLUS4)>>,
             <<Opt("size", PLUSABC)>>}

PopularityUses == {<<>>, <<Opt("popularity", TOP1)>>, <<Opt("popularity", TOP2)>>, <<Use("popularity", "eq", TOPM1, EmptyText)>>,
                   <<Opt("popularity", TOPX)>>, <<Opt("popularity", PLUS1M)>>,
                   <<Opt("popularity", PLUSABC)>>, <<Opt("popularity", ABC)>>}

UpdatedUses == {<<>>, <<Upd("long", SincePfx, Naive(2023, 6, 2, 0))>>,
                <<Upd("long", BeforePfx, Naive(2023, 6, 1, 0))>>}

AllUses == {<<>>, <<Use("all", "long", <<>>, EmptyText)>>}

\* the six groups of options, written in any rotation of their order
Rotated(parts, k) ==
  LET at(i) == parts[((i + k - 1) % Len(parts)) + 1]
  IN at(1) \o at(2) \o at(3) \o at(4) \o at(5) \o at(6)

QueryArgvs ==
  {Rotated(<<n, c, s, p, u, a>>, k) :
     n \in NameUses, c \in CapabilityUses, s \in SizeUses, p \in PopularityUses,
     u \in UpdatedUses, a \in AllUses, k \in 0..5}

NotStarted ==
  /\ args = NoArgs
  /\ arg_order = <<>>
  /\ idx = 1
  /\ matches = <<>>
  /\ survivors = <<>>
  /\ sort_order = SortOrder("unset", FALSE)
  /\ stdout = <<>>
  /\ stderr = 0
  /\ references = {}
  /\ pc = "start"
  /\ exit_code = Running

\* a query over a catalog
Init ==
  /\ argv \in QueryArgvs
  /\ \/ dir_exists = FALSE /\ model_files = <<>>
     \/ dir_exists = TRUE /\ model_files \in Catalogs(Pool, MaxRecords)
  /\ now = Clock
  /\ NotStarted

Spec == Init /\ [][Next]_vars

\* the update filters and the 'updated' fields one record is tried against
Prefixes == {SincePfx, AfterPfx, BeforePfx, UntilPfx, OnPfx, <<>>}

FilterDates == {Naive(2023, 6, 1, 0), Naive(2023, 6, 1, 14), Aware(2024, 1, 1, 0),
                RelText(3, "months"), RelText(2, "weeks"), RelText(1, "day"),
                RelText(1, "year"), JunkText, EmptyText}

RecordDates == {AbsentText, EmptyText, JunkText, Naive(2023, 6, 1, 14), Naive(2023, 6, 2, 0),
                Naive(2023, 6, 1, 0), Naive(2023, 3, 15, 12), Naive(2023, 5, 31, 23),
                Aware(2022, 1, 1, 0), Aware(2024, 1, 1, 0)}

Clocks == {Clock, DT(2024, 3, 31, 12, FALSE)}

Dated(updated) == Rec(LLAMA, <<VISION, TOOLS>>, <<S7B>>, TRUE, P33M, updated)

\* a query with one update filter over a catalog of one record
InitDate ==
  /\ argv \in {<<Upd("long", prefix, expr)>> : prefix \in Prefixes, expr \in FilterDates}
  /\ dir_exists = TRUE
  /\ model_files \in {<<Dated(u)>> : u \in RecordDates}
  /\ now \in Clocks
  /\ NotStarted

SpecDate == InitDate /\ [][Next]_vars

\* the forms an option can be written in
Forms == {"long", "short", "eq", "attached", "abbrev"}

\* a value of each dimension that both records of the catalog match
ValueOf(dim) ==
  CASE dim = "name" -> Use(dim, "long", EL, EmptyText)
    [] dim = "capability" -> Use(dim, "long", TOOL, EmptyText)
    [] dim = "size" -> Use(dim, "long", PLUS4, EmptyText)
    [] dim = "popularity" -> Use(dim, "long", PLUS1K, EmptyText)
    [] dim = "updated" -> Use(dim, "long", SincePfx, Naive(2023, 6, 1, 0))

FormUses ==
  {[ValueOf(dim) EXCEPT !.form = form] : dim \in Dimensions, form \in Forms}
    \cup {Use("name", "eq", <<>>, EmptyText), Use("size", "eq", <<>>, EmptyText),
          Opt("size", MINUS28), Opt("popularity", MINUS1K),
          Use("all", "long", <<>>, EmptyText), Use("all", "short", <<>>, EmptyText)}

\* a command line of up to MaxFlags options, each in any form
InitArgv ==
  /\ argv \in UNION {[1..k -> FormUses] : k \in 0..MaxFlags}
  /\ dir_exists = TRUE
  /\ model_files = <<Mistral, Llama>>
  /\ now = Clock
  /\ NotStarted

SpecArgv == InitArgv /\ [][Next]_vars

\* the options a command line of SpecOrder is made of: every dimension with
\* one value, --size with four, and --debug
OrderUses ==
  {Opt("name", LL), Opt("capability", TOOL), Opt("size", PLUS4), Opt("size", MINUS28),
   Opt("size", SEVEN), Opt("size", PLUSABC), Opt("popularity", TOP1),
   Upd("long", SincePfx, Naive(2023, 6, 1, 0)), Use("debug", "long", <<>>, EmptyText)}

OrderCatalogs == {<<Llama, Mistral>>, <<Mistral, Llama>>, <<Minilm, Llama>>, <<Minilm>>,
                  <<Mistral, Broken>>}

MaxOrder == 3

\* up to MaxOrder different options in any order
InitOrder ==
  /\ argv \in {a \in UNION {[1..k -> OrderUses] : k \in 0..MaxOrder} : Injective(a)}
  /\ dir_exists = TRUE
  /\ model_files \in OrderCatalogs
  /\ now = Clock
  /\ NotStarted

SpecOrder == InitOrder /\ [][Next]_vars

\* the characters a size tag of SpecSize is written with
TagAlphabet == {"7", ".", "b", "M", "k", "x"}

MaxLen == 3

Tagged(tag) == Rec(LLAMA, <<TOOLS>>, <<tag>>, TRUE, P33M, Naive(2023, 6, 1, 14))

\* a query with one size filter over a catalog of one record with one size
\* tag, which is any text of up to MaxLen characters
InitSize ==
  /\ argv \in {<<Opt("size", f)>> : f \in {PLUS4, MINUS28, SEVEN}}
  /\ dir_exists = TRUE
  /\ model_files \in {<<Tagged(tag)>> : tag \in UNION {[1..k -> TagAlphabet] : k \in 0..MaxLen}}
  /\ now = Clock
  /\ NotStarted

SpecSize == InitSize /\ [][Next]_vars

\* an id of n characters
Wide(n) == LLAMA \o [i \in 1..(n - Len(LLAMA)) |-> "x"]

\* a pull count of n digits
Pulled(n) == [i \in 1..n |-> "1"]

IdLengths == {3, 20, 21, 22, 24, 25, 26, 30}

PullLengths == {7, 8, 9}

\* the command lines of SpecTable: the table and the flat output, with and
\* without a size filter and --all
TableArgvs ==
  LET long == Use("long", "long", <<>>, EmptyText)
      all == Use("all", "long", <<>>, EmptyText)
  IN {<<Opt("name", LL), long>>, <<Opt("name", LL)>>,
      <<long, Opt("size", PLUS4)>>, <<Opt("size", PLUS4)>>,
      <<all, Opt("size", PLUS4), long>>, <<all, Opt("size", PLUS4)>>,
      <<all, long>>}

TableCatalogs ==
  {<<Rec(Wide(n), <<VISION, TOOLS>>, <<S7B, S13B>>, TRUE, Pulled(p), Naive(2023, 6, 1, 14))>> :
     n \in IdLengths, p \in PullLengths}
    \cup {<<Llama, Broken>>, <<Broken>>, <<Minilm, Mistral>>, <<Mistral, Llama>>}

InitTable ==
  /\ argv \in TableArgvs
  /\ dir_exists = TRUE
  /\ model_files \in TableCatalogs
  /\ now = Clock
  /\ NotStarted

SpecTable == InitTable /\ [][Next]_vars

\* records updated a day, to the hour, before the query starts, and one
\* updated a month before
ClockPool ==
  {Rec(LLAMA, <<TOOLS>>, <<S7B>>, TRUE, P33M, Naive(2023, 6, 14, 12)),
   Rec(MIL, <<TOOLS>>, <<S7B>>, TRUE, P500K, Naive(2023, 6, 14, 12)),
   Rec(ALL, <<EMBEDDING>>, <<S500M>>, FALSE, <<>>, Naive(2023, 5, 15, 13))}

\* a query with one relative update filter
InitClock ==
  /\ argv \in {<<Upd("long", prefix, expr)>> :
                 prefix \in {SincePfx, BeforePfx},
                 expr \in {RelText(1, "day"), RelText(1, "month"), RelText(2, "weeks")}}
  /\ dir_exists = TRUE
  /\ model_files \in Catalogs(ClockPool, MaxRecords)
  /\ now = Clock
  /\ NotStarted

SpecClock == InitClock /\ [][Next]_vars

(***************************************************************************)
(* Properties of the filter pipeline                                       *)
(***************************************************************************)
InMatches(x) == \E j \in 1..Len(matches) : matches[j].model = x.model

IsTop(p) == StartsWith(p, <<"t", "o", "p">>)

\* the pull count of a record as a number
Pulls(x) == parse_pull_count(PullOf(x)).val

\* one size filter as (comparator, threshold): '+n' is >= n, '-n' is <= n, 'n'
\* is = n
SizeSpecHolds(value, f) ==
  IF StartsWith(f, <<"+">>) THEN NumGe(value, Float(Tail(f)).val)
  ELSE IF StartsWith(f, <<"-">>) THEN NumLe(value, Float(Tail(f)).val)
  ELSE NumEq(value, Float(f).val)

\* a size tag parses and its value passes every non-empty filter
TagPassesAll(tag, filters) ==
  /\ ~parse_size(tag).isNone
  /\ \A k \in 1..Len(filters) :
       Len(filters[k]) > 0 => SizeSpecHolds(parse_size(tag), filters[k])

SatName(x) == Len(args.name) > 0 => Contains(Lower(x.model), Lower(args.name))

SatCapability(x) ==
  Len(args.capability) > 0 =>
    \E i \in 1..Len(x.capabilities) : Contains(Lower(x.capabilities[i]), Lower(args.capability))

SatPopularity(x) ==
  (Len(args.popularity) > 0 /\ ~IsTop(args.popularity)) =>
    IF StartsWith(args.popularity, <<"+">>)
    THEN NumGe(Pulls(x), parse_pull_count(Tail(args.popularity)).val)
    ELSE IF StartsWith(args.popularity, <<"-">>)
    THEN NumLe(Pulls(x), parse_pull_count(Tail(args.popularity)).val)
    ELSE /\ parse_pull_count(args.popularity).exc = "none"
         /\ NumEq(Pulls(x), parse_pull_count(args.popularity).val)

SatUpdated(x) ==
  FilterGiven(args.updated) => date_matches_filter(x.updated, args.updated, now).val

SatSize(x) ==
  Len(args.size) > 0 =>
    \E i \in 1..Len(x.sizes) :
      \A k \in 1..Len(args.size) : size_matches_filter(x.sizes[i], args.size[k]).val

NumGiven == Cardinality({dim \in Dimensions : ArgGiven(args, dim)})

\* C1: when the loop over the catalog has ended, a record is in matches iff it
\* satisfies every specified dimension (name, capability, popularity threshold,
\* update filter, and some size tag passing all size filters); with --all every
\* record of the catalog is in matches, unmodified and in catalog order.
C1_PureConjunction ==
  pc = "topn" =>
    IF args.all THEN matches = model_files
    ELSE /\ \A i \in 1..Len(model_files) :
              InMatches(model_files[i]) <=>
                (/\ SatName(model_files[i])
                 /\ SatCapability(model_files[i])
                 /\ SatPopularity(model_files[i])
                 /\ SatUpdated(model_files[i])
                 /\ SatSize(model_files[i]))
         /\ \A i, j \in 1..Len(matches) : matches[i].model = matches[j].model => i = j

\* several dimensions specified, one record kept and one dropped
C1_Witness ==
  /\ pc = "topn"
  /\ ~args.all
  /\ NumGiven >= 3
  /\ Len(matches) = 1
  /\ Len(model_files) = 2

\* --all together with filters that no record satisfies
C1_WitnessAll ==
  /\ pc = "topn"
  /\ args.all
  /\ NumGiven >= 2
  /\ Len(matches) = 2
  /\ \E i \in 1..2 : ~SatName(model_files[i])

\* the tags of sizes, in order, that parse and pass every filter
PassingTags(sizes, filters) ==
  LET Test(tag) == TagPassesAll(tag, filters)
  IN SelectSeq(sizes, Test)

\* the record of the catalog a match was made from
Original(m) == CHOOSE x \in {model_files[i] : i \in 1..Len(model_files)} : x.model = m.model

\* C2 as stated: with size filters supplied, every surviving record carries
\* matched_sizes, which is the subsequence of its sizes that parse and pass
\* every filter, and it is not empty.
C2_MatchedSizesAsStated ==
  (pc \in {"loop", "topn"} /\ Len(args.size) > 0) =>
    \A j \in 1..Len(matches) :
      /\ matches[j].has_matched
      /\ matches[j].matched_sizes = PassingTags(Original(matches[j]).sizes, args.size)
      /\ Len(matches[j].matched_sizes) > 0

AllFiltersEmpty == \A k \in 1..Len(args.size) : Len(args.size[k]) = 0

\* C2 amended: without --all, and with at least one size filter that is not
\* the empty string, matched_sizes is the subsequence of sizes that parse and
\* pass every filter, no unparsable tag is in it, and it is not empty; when
\* every supplied filter is the empty string matched_sizes is the whole of
\* sizes (unparsable tags included) and the record is kept only if it has a
\* size; with --all the records are kept without matched_sizes.
C2_MatchedSizes ==
  (pc \in {"loop", "topn"} /\ Len(args.size) > 0) =>
    \A j \in 1..Len(matches) :
      IF args.all THEN ~matches[j].has_matched /\ matches[j] = Original(matches[j])
      ELSE /\ matches[j].has_matched
           /\ Len(matches[j].matched_sizes) > 0
           /\ IF AllFiltersEmpty
              THEN matches[j].matched_sizes = Original(matches[j]).sizes
              ELSE /\ matches[j].matched_sizes
                        = PassingTags(Original(matches[j]).sizes, args.size)
                   /\ \A i \in 1..Len(matches[j].matched_sizes) :
                        ~parse_size(matches[j].matched_sizes[i]).isNone

\* a range of two filters keeps the middle of four sizes
C2_Witness ==
  /\ pc = "topn"
  /\ ~args.all
  /\ Len(args.size) = 2
  /\ \E j \in 1..Len(matches) :
       /\ Len(Original(matches[j]).sizes) = 4
       /\ matches[j].matched_sizes = <<S7B, S13B>>

(***************************************************************************)
(* Properties of the top-n truncation and of the exit status               *)
(***************************************************************************)
\* the number after 'top' when it is an integer
TopArg == IntOf(From(args.popularity, 3))

TopGiven == Len(args.popularity) > 0 /\ IsTop(args.popularity)

InSeq(x, seq) == \E j \in 1..Len(seq) : seq[j] = x

Descending(seq) == \A i, j \in 1..Len(seq) : i < j => NumGe(Pulls(seq[i]), Pulls(seq[j]))

\* the last entry of arg_order that names a dimension given a value
LastGiven ==
  LET S == {i \in 1..Len(arg_order) :
              DimOf(arg_order[i]) # "" /\ ArgGiven(args, DimOf(arg_order[i]))}
  IN IF S = {} THEN "" ELSE DimOf(arg_order[CHOOSE i \in S : \A k \in S : k <= i])

\* C3: with top<n>, what is handed to the final sort is cut from the survivors
\* of all per-record predicates (the size filter included): its records are
\* survivors, min(n, survivors) of them for n >= 0, in descending pull-count
\* order, and each has at least the pull count of every survivor that was
\* dropped; when popularity is also the last dimension given, the output is
\* those same records in descending pull-count order.
C3_TopNThenSort ==
  (TopGiven /\ pc \in {"sort", "output", "done", "nomatch"}) =>
    /\ \A j \in 1..Len(matches) : InSeq(matches[j], survivors)
    /\ \A j \in 1..Len(survivors) :
         Len(args.size) > 0 /\ ~args.all => Len(survivors[j].matched_sizes) > 0
    /\ TopArg.val >= 0 =>
         Len(matches) = IF TopArg.val < Len(survivors) THEN TopArg.val ELSE Len(survivors)
    /\ \A i \in 1..Len(matches) : \A j \in 1..Len(survivors) :
         ~InSeq(survivors[j], matches) => NumGe(Pulls(matches[i]), Pulls(survivors[j]))
    /\ (pc = "sort" \/ LastGiven = "popularity") => Descending(matches)

\* top1 over two survivors of a size filter, the one with fewer pulls first in
\* the catalog, popularity given last
C3_Witness ==
  /\ TopGiven
  /\ pc = "done"
  /\ Len(args.size) > 0
  /\ LastGiven = "popularity"
  /\ Len(survivors) = 2
  /\ Len(matches) = 1
  /\ survivors[2] = matches[1]
  /\ NumLt(Pulls(survivors[1]), Pulls(matches[1]))

\* C8 as stated: no exception escapes the evaluation of a predicate and ends
\* the query.
C8_NoExceptionEscapes == pc # "crashed"

\* a threshold that is not a magnitude: no leading number, or a leading run of
\* digits and dots that is not a number
Unparsable(threshold) ==
  LET a == RunLen(threshold, "digitdot")
  IN a = 0 \/ Float(SubSeq(threshold, 1, a)).exc # "none"

ThresholdOf(p) == IF StartsWith(p, <<"+">>) \/ StartsWith(p, <<"-">>) THEN Tail(p) ELSE p

\* C9 as stated: with a popularity threshold that cannot be parsed, whatever
\* the comparator, no record survives the loop (--all apart, which bypasses
\* every predicate).
C9_BadThresholdMatchesNothing ==
  (/\ pc = "topn"
   /\ ~args.all
   /\ Len(args.popularity) > 0
   /\ ~IsTop(args.popularity)
   /\ Unparsable(ThresholdOf(args.popularity))) => Len(matches) = 0

Terminated == exit_code # Running

\* C10: the exit status is 0 iff the query reached its output with at least one
\* record in the final result; it is not 0 when the directory is absent, when
\* the catalog has no files, when no record is left after filtering and
\* truncation, and when the number after 'top' is not an integer.
C10_ExitStatus ==
  Terminated =>
    /\ exit_code = 0 <=> (pc \in {"done", "nomatch"} /\ Len(matches) > 0)
    /\ ~dir_exists => exit_code # 0
    /\ Len(model_files) = 0 => exit_code # 0
    /\ pc \in {"done", "nomatch"} /\ Len(matches) = 0 => exit_code # 0
    /\ (TopGiven /\ TopArg.exc # "none") => exit_code # 0

\* a query that ends with status 0 and a result
C10_Witness == pc = "done" /\ exit_code = 0 /\ Len(matches) > 0

\* 'topx' ends the query with an error although records had matched
C10_WitnessBadTop ==
  /\ pc = "badtopn"
  /\ exit_code = 1
  /\ TopArg.exc # "none"
  /\ Len(survivors) > 0

(***************************************************************************)
(* Properties of the sort resolver and of the argument order               *)
(***************************************************************************)
\* the key and direction of each dimension
SortTable(dim) ==
  CASE dim = "popularity" -> SortOrder("popularity", TRUE)
    [] dim = "size" -> SortOrder("size", FALSE)
    [] dim = "updated" -> SortOrder("updated", TRUE)
    [] dim = "capability" -> SortOrder("capability", TRUE)
    [] dim = "name" -> SortOrder("name", FALSE)
    [] OTHER -> SortOrder("default", FALSE)

Resolved == sort_order.key # "unset"

\* whether a dimension was supplied with a value that is not the empty string
NonEmptyGiven(dim) ==
  IF dim = "size" THEN \E k \in 1..Len(args.size) : Len(args.size[k]) > 0
  ELSE ArgGiven(args, dim)

LastNonEmpty ==
  LET S == {i \in 1..Len(arg_order) :
              DimOf(arg_order[i]) # "" /\ NonEmptyGiven(DimOf(arg_order[i]))}
  IN IF S = {} THEN "" ELSE DimOf(arg_order[CHOOSE i \in S : \A k \in S : k <= i])

\* C4 as stated: the key and direction the resolver returns are those of the
\* last entry of arg_order that names a dimension supplied with a non-empty
\* value; with no such entry the order is the default one.
C4_LastNonEmptyDecides == Resolved => sort_order = SortTable(LastNonEmpty)

\* C4 amended: the key and direction the resolver returns are those of the
\* last entry of arg_order that names a dimension given a value, where name,
\* capability, popularity and updated need a non-empty value and size needs
\* only to have been supplied (an empty --size value counts), whatever comes
\* before that entry; with no such entry the order is the default one,
\* ascending by lower-case id, and the result is then in that order.
C4_LastGivenDecides ==
  Resolved =>
    /\ sort_order = SortTable(LastGiven)
    /\ (LastGiven = "" /\ pc \in {"output", "done"}) =>
         \A i, j \in 1..Len(matches) :
           i < j => ~StrLess(Lower(matches[j].model), Lower(matches[i].model))

\* the last entry names a dimension given no value and an earlier one decides
C4_Witness ==
  /\ Resolved
  /\ Len(arg_order) = 2
  /\ DimOf(arg_order[2]) = "name"
  /\ ~ArgGiven(args, "name")
  /\ sort_order = SortTable(DimOf(arg_order[1]))
  /\ DimOf(arg_order[1]) # ""

\* only --all: the default order, which differs from the catalog order
C4_WitnessDefault ==
  /\ pc = "done"
  /\ Resolved
  /\ LastGiven = ""
  /\ args.all
  /\ matches = <<Llama, Mistral>>

\* the dimensions arg_order names, in order
RECURSIVE DimEntries(_)
DimEntries(order) ==
  IF Len(order) = 0 THEN <<>>
  ELSE (IF DimOf(order[1]) # "" THEN <<DimOf(order[1])>> ELSE <<>>) \o DimEntries(Tail(order))

\* the dimensions of the filter options of the command line, in order
RECURSIVE FlagDims(_)
FlagDims(uses) ==
  IF Len(uses) = 0 THEN <<>>
  ELSE (IF uses[1].dim \in Dimensions THEN <<uses[1].dim>> ELSE <<>>) \o FlagDims(Tail(uses))

\* the dimension of the last filter option on the command line whose argument
\* is given
LastWritten ==
  LET S == {i \in 1..Len(argv) : argv[i].dim \in Dimensions /\ ArgGiven(args, argv[i].dim)}
  IN IF S = {} THEN "" ELSE argv[CHOOSE i \in S : \A k \in S : k <= i].dim

\* C5 as stated: for a command line argparse accepts, arg_order has one entry
\* per filter option, in command-line order, whatever the form of the option,
\* and the dimension written last decides the sort.
C5_ArgOrderPreserved ==
  /\ pc \notin {"start", "track", "usage"} => DimEntries(arg_order) = FlagDims(argv)
  /\ Resolved => sort_order = SortTable(LastWritten)

(***************************************************************************)
(* Properties of the update filter                                         *)
(***************************************************************************)
TheRecord == model_files[1]

Timestamp == dateutil_parse(TheRecord.updated).val

Reference == parse_date_string(args.updated.expr, now)

BothParse ==
  /\ FilterGiven(args.updated)
  /\ dateutil_parse(TheRecord.updated).exc = "none"
  /\ ~Reference.isNone

Stamp(dt) == <<dt.y, dt.m, dt.d, dt.h>>

RECURSIVE TupleLess(_, _)
TupleLess(a, b) ==
  IF Len(a) = 0 THEN FALSE
  ELSE IF a[1] # b[1] THEN a[1] < b[1]
  ELSE TupleLess(Tail(a), Tail(b))

\* what each form of the filter asks of the timestamp
Asked ==
  IF args.updated.prefix \in {BeforePfx, UntilPfx}
  THEN ~TupleLess(Stamp(Reference), Stamp(Timestamp))
  ELSE IF args.updated.prefix = OnPfx
  THEN Timestamp.y = Reference.y /\ Timestamp.m = Reference.m /\ Timestamp.d = Reference.d
  ELSE ~TupleLess(Stamp(Timestamp), Stamp(Reference))

\* C6 as stated: when timestamp and reference both parse, the record passes
\* iff timestamp >= reference (since:, after:, bare), timestamp <= reference
\* (before:, until:), same year, month and day (on:).
C6_ComparisonAsStated ==
  (pc = "topn" /\ BothParse) => (InMatches(TheRecord) <=> Asked)

Comparable == Timestamp.aware = Reference.aware

\* C6 amended: the same, when timestamp and reference are both without a time
\* zone or both with one, and for on: in every case; when one has a time zone
\* and the other has none, the since:, after:, bare, before: and until: forms
\* pass the record.
C6_Comparison ==
  (pc = "topn" /\ BothParse) =>
    IF Comparable \/ args.updated.prefix = OnPfx
    THEN InMatches(TheRecord) <=> Asked
    ELSE InMatches(TheRecord)

\* a record exactly at the reference of a relative since: filter passes
C6_Witness ==
  /\ pc = "topn"
  /\ BothParse
  /\ args.updated.prefix = SincePfx
  /\ args.updated.expr.k = "rel"
  /\ Stamp(Timestamp) = Stamp(Reference)
  /\ InMatches(TheRecord)

\* on: rejects the first hour of the next day
C6_WitnessOn ==
  /\ pc = "topn"
  /\ BothParse
  /\ args.updated.prefix = OnPfx
  /\ Timestamp.d = Reference.d + 1
  /\ Timestamp.h = 0
  /\ ~InMatches(TheRecord)

\* C7: with an update filter given, a record with no 'updated' field, or an
\* empty one, or one that does not parse, and any record when the reference of
\* the filter does not parse, passes the update filter and stays in matches.
C7_FailOpen ==
  (/\ pc = "topn"
   /\ FilterGiven(args.updated)
   /\ \/ TheRecord.updated.k \in {"absent", "empty"}
      \/ dateutil_parse(TheRecord.updated).exc # "none"
      \/ Reference.isNone) => InMatches(TheRecord)

\* an unparsable timestamp against a filter that would reject every date
C7_Witness ==
  /\ pc = "topn"
  /\ TheRecord.updated.k = "junk"
  /\ args.updated.prefix = SincePfx
  /\ args.updated.expr = Aware(2024, 1, 1, 0)
  /\ InMatches(TheRecord)

\* an unparsable reference against a record with a timestamp
C7_WitnessReference ==
  /\ pc = "topn"
  /\ TheRecord.updated.k = "abs"
  /\ args.updated.prefix = BeforePfx
  /\ args.updated.expr.k = "junk"
  /\ InMatches(TheRecord)

(***************************************************************************)
(* Properties that relate two runs.  The second run is the composition of  *)
(* the steps of main() on another command line, at the same clock.         *)
(***************************************************************************)
\* the list the loop leaves, or the exception that ends it
RECURSIVE LoopFrom(_, _, _, _)
LoopFrom(files, a, clock, acc) ==
  LET step(r) ==
        IF r.exc # "none" THEN Raise(r.exc, acc)
        ELSE LoopFrom(Tail(files), a, clock, IF r.keep THEN Append(acc, r.rec) ELSE acc)
  IN IF Len(files) = 0 THEN Ok(acc)
     ELSE step(ProcessOne(files[1], a, clock))

\* the list the top-n block leaves, or its ValueError
TopOf(ms, a) ==
  LET cut(top_n, byPulls) ==
        IF top_n.exc # "none" \/ SortExc(ms, byPulls) # "none"
        THEN Raise("ValueError", ms)
        ELSE Ok(Slice(StableSort(ms, byPulls, a), top_n.val))
  IN IF Len(a.popularity) > 0 /\ StartsWith(a.popularity, <<"t", "o", "p">>)
     THEN cut(IntOf(From(a.popularity, 3)), SortOrder("popularity", TRUE))
     ELSE Ok(ms)

Ended(place, code, a) ==
  [place |-> place, code |-> code, args |-> a, survivors |-> <<>>,
   order |-> SortOrder("unset", FALSE), finals |-> {<<>>}]

\* where a run on the command line uses ends, and with what
RunOf(uses, dir, files, clock) ==
  LET sorted(a, looped, cutoff, order) ==
        IF looped.exc # "none" THEN Ended("crashed", 1, a)
        ELSE IF cutoff.exc # "none" THEN Ended("badtopn", 1, a)
        ELSE IF Len(cutoff.val) = 0
             THEN [Ended("nomatch", 1, a) EXCEPT !.survivors = looped.val]
        ELSE [place |-> "done", code |-> 0, args |-> a, survivors |-> looped.val,
              order |-> order, finals |-> SortOutcomes(cutoff.val, order, a)]
      topped(a, looped) ==
        sorted(a, looped, TopOf(looped.val, a),
               determine_sort_order(track_arg_order(Render(uses)), a))
      parsed(a) ==
        IF ~dir \/ Len(files) = 0 THEN Ended("nocatalog", 1, a)
        ELSE IF ~(a.all \/ \E dim \in Dimensions : ArgGiven(a, dim)) THEN Ended("help", 1, a)
        ELSE topped(a, LoopFrom(files, a, clock, <<>>))
  IN IF \E i \in 1..Len(uses) : ~Accepted(uses[i]) THEN Ended("usage", 2, NoArgs)
     ELSE parsed(parse_args(uses))

\* the command line without its --debug
WithoutDebug(uses) ==
  LET Kept(u) == u.dim # "debug"
  IN SelectSeq(uses, Kept)

\* the run that has ended is, but for the diagnostic stream, the run ref
SameAs(ref) ==
  /\ pc = ref.place
  /\ exit_code = ref.code
  /\ pc \in {"done", "nomatch"} =>
       /\ survivors = ref.survivors
       /\ sort_order = ref.order
       /\ matches \in ref.finals
       /\ stdout = IF pc = "done" THEN Printed(matches, ref.args) ELSE <<>>

\* C11: a query that has ended with --debug on its command line ended where
\* the same query without --debug ends, with the same exit status, the same
\* survivors and matched_sizes, the same sort and final order, and the same
\* lines on the primary output.
C11_DebugNonInterference ==
  (Terminated /\ args.debug) =>
    SameAs(RunOf(WithoutDebug(argv), dir_exists, model_files, now))

\* --debug written last after two filters, with lines on the diagnostic stream
C11_Witness ==
  /\ pc = "done"
  /\ args.debug
  /\ stderr > 2
  /\ Len(arg_order) = 3
  /\ arg_order[3] = LongName("debug")
  /\ sort_order.key = "size"
  /\ Len(args.name) > 0
  /\ Len(matches) > 0

\* the elements of a list
Members(seq) == {seq[i] : i \in 1..Len(seq)}

\* the records of the final result of a run, each with its matched_sizes; a
\* run that ends before its output has none
ResultMembers(run) ==
  IF run.place = "done" THEN Members(CHOOSE f \in run.finals : TRUE) ELSE {}

\* the same options in every order
Reordered(uses) ==
  {[i \in 1..Len(uses) |-> uses[p[i]]] : p \in Permutations(1..Len(uses))}

\* C12: a query that has ended has in its final result the records, each with
\* the matched_sizes, that the same options written in any other order give
\* (every single-valued option written once; a top-n popularity included).
C12_FlagOrder ==
  Terminated =>
    \A other \in Reordered(argv) :
      ResultMembers(RunOf(other, dir_exists, model_files, now))
        = (IF pc = "done" THEN Members(matches) ELSE {})

\* three options, two records in the result, and an order of the same options
\* that prints them the other way round
C12_Witness ==
  /\ pc = "done"
  /\ Len(argv) = 3
  /\ Len(matches) = 2
  /\ Len(args.size) > 0
  /\ \E other \in Reordered(argv) :
       matches \notin RunOf(other, dir_exists, model_files, now).finals

\* top1 with two other options: one of two survivors is kept in every order
C12_WitnessTop ==
  /\ pc = "done"
  /\ Len(argv) = 3
  /\ TopGiven
  /\ Len(survivors) = 2
  /\ Len(matches) = 1

(***************************************************************************)
(* Properties of the final order                                           *)
(***************************************************************************)
\* the timestamp a record is ranked by: the epoch floor when its 'updated' is
\* absent, empty or does not parse
RankedStamp(x) ==
  IF x.updated.k = "abs" THEN Stamp(x.updated.dt) ELSE Stamp(Epoch)

Sorted == pc \in {"output", "done"}

\* C13 as stated: when updated is the resolved sort dimension the final result
\* is in descending order of the ranked timestamps, a record without a
\* parseable 'updated' ranked at the epoch floor.
C13_UpdatedOrder ==
  (Sorted /\ sort_order.key = "updated") =>
    \A i, j \in 1..Len(matches) :
      i < j => ~TupleLess(RankedStamp(matches[i]), RankedStamp(matches[j]))

\* whether a capability tag of the record contains the filter, case ignored
Capable(x) ==
  \E i \in 1..Len(x.capabilities) : Contains(Lower(x.capabilities[i]), Lower(args.capability))

\* C14: when capability is the resolved sort dimension, every record with a
\* matching capability tag precedes every record without one, and within
\* each group the lower-case ids are in descending order.
C14_CapabilityOrder ==
  (Sorted /\ sort_order.key = "capability") =>
    \A i, j \in 1..Len(matches) :
      i < j =>
        /\ Capable(matches[j]) => Capable(matches[i])
        /\ (Capable(matches[i]) <=> Capable(matches[j]))
             => ~StrLess(Lower(matches[i].model), Lower(matches[j].model))

\* with --all, a record with the capability is moved before one without it
\* whose id is the greater one
C14_Witness ==
  /\ pc = "done"
  /\ sort_order.key = "capability"
  /\ Len(matches) = 2
  /\ Capable(matches[1])
  /\ ~Capable(matches[2])
  /\ StrLess(Lower(matches[1].model), Lower(matches[2].model))
  /\ model_files[1] = matches[2]

\* two records with the capability end in reverse alphabetical order
C14_WitnessReverse ==
  /\ pc = "done"
  /\ sort_order.key = "capability"
  /\ Len(matches) = 2
  /\ Capable(matches[2])
  /\ StrLess(Lower(matches[2].model), Lower(matches[1].model))
  /\ model_files[1] = matches[2]

(***************************************************************************)
(* Properties of the size parser                                           *)
(***************************************************************************)
TheTag == model_files[1].sizes[1]

\* the length of the decimal number a tag starts with: digits, then possibly
\* a point and more digits; 0 when the tag does not start with a digit
NumberLen(tag) ==
  LET whole(a) ==
        IF a = 0 THEN 0
        ELSE IF Len(tag) > a /\ tag[a + 1] = "." THEN a + 1 + RunLen(From(tag, a + 1), "digit")
        ELSE a
  IN whole(RunLen(tag, "digit"))

\* its value
NumberOf(tag) ==
  LET value(ip, fp) == Num(DigitsVal(ip \o fp), Pow10(Len(fp)))
      digits(a) == value(SubSeq(tag, 1, a), SubSeq(tag, a + 2, NumberLen(tag)))
  IN digits(RunLen(tag, "digit"))

\* the letters that follow the number
UnitOf(tag) ==
  SubSeq(tag, NumberLen(tag) + 1, NumberLen(tag) + RunLen(From(tag, NumberLen(tag)), "alpha"))

InBillions(value, unit) ==
  CASE Lower(unit) = <<"b">> -> value
    [] Lower(unit) = <<"m">> -> Num(value.n, value.d * 1000)
    [] Lower(unit) = <<"k">> -> Num(value.n, value.d * 1000 * 1000)
    [] OTHER -> value

\* null only when there is no leading number
StatedSize(tag) ==
  IF NumberLen(tag) = 0 THEN None ELSE InBillions(NumberOf(tag), UnitOf(tag))

\* null also when no letter follows the number
ActualSize(tag) ==
  IF NumberLen(tag) = 0 \/ Len(UnitOf(tag)) = 0 THEN None
  ELSE InBillions(NumberOf(tag), UnitOf(tag))

SameNum(a, b) == a.isNone = b.isNone /\ (~a.isNone => NumEq(a, b))

\* the size parser returned expected for the tag of the record, and the
\* record was kept iff that value passes the filter
ParsedAs(expected) ==
  /\ SameNum(parse_size(TheTag), expected)
  /\ InMatches(TheRecord) <=> (~expected.isNone /\ SizeSpecHolds(expected, args.size[1]))

\* C15 as stated: for a tag that starts with a decimal number the size parser
\* returns the number for unit b, the number / 1000 for m, the number /
\* 1,000,000 for k (any case), and the number for any other unit and for no
\* unit; null only when the tag has no leading number.
C15_ParseSizeAsStated == pc = "topn" => ParsedAs(StatedSize(TheTag))

\* C15 amended: the same, where the unit is the run of letters that directly
\* follows the number and whatever comes after it is ignored; null when the
\* tag has no leading number and also when no letter directly follows the
\* number (an absent unit included).
C15_ParseSize == pc = "topn" => ParsedAs(ActualSize(TheTag))

\* 7M is 0.007 billions and passes -28
C15_Witness ==
  /\ pc = "topn"
  /\ TheTag = <<"7", "M">>
  /\ args.size = <<MINUS28>>
  /\ NumEq(parse_size(TheTag), Num(7, 1000))
  /\ InMatches(TheRecord)

\* a number with no unit is not a size: the record is dropped by -28
C15_WitnessNoUnit ==
  /\ pc = "topn"
  /\ TheTag = <<"7">>
  /\ args.size = <<MINUS28>>
  /\ parse_size(TheTag).isNone
  /\ ~InMatches(TheRecord)

(***************************************************************************)
(* Properties of the table                                                 *)
(***************************************************************************)
ColumnWidths == <<25, 29, 8, 18, 17>>

\* the number of characters of a line before column i
RECURSIVE Offset(_)
Offset(i) == IF i = 1 THEN 0 ELSE Offset(i - 1) + ColumnWidths[i - 1] + 3

\* the rendering of a text in a column of w characters, where a text of up to
\* w - slack characters is one that does not overflow
ExpectedCell(text, w, slack) ==
  IF Len(text) <= w - slack
  THEN text \o [k \in 1..(w - Len(text)) |-> " "]
  ELSE SubSeq(text, 1, w - 1) \o <<Ellipsis>>

\* every data line of the table is made of the expected cells, each followed
\* by ' | '
Rendered(rows, slack) ==
  /\ Len(stdout) = Len(rows) + 2
  /\ \A r \in 1..Len(rows) :
       /\ Len(stdout[r + 2]) = Offset(Len(ColumnWidths) + 1)
       /\ \A i \in 1..Len(ColumnWidths) :
            /\ SubSeq(stdout[r + 2], Offset(i) + 1, Offset(i) + ColumnWidths[i])
                 = ExpectedCell(rows[r][i], ColumnWidths[i], slack)
            /\ SubSeq(stdout[r + 2], Offset(i) + ColumnWidths[i] + 1, Offset(i + 1))
                 = <<" ", "|", " ">>

TablePrinted == pc = "done" /\ args.long

\* C16 as stated: every data cell of the table occupies exactly the width of
\* its column (25, 29, 8, 18, 17): a text of up to width characters is
\* rendered whole, left-justified and padded, a longer one as its first
\* width - 1 characters and one truncation marker.
C16_CellsAsStated ==
  TablePrinted => Rendered(TableRows(matches, Len(args.size) > 0), 0)

\* C16 amended: every data cell of the table occupies exactly the width of
\* its column: a text of up to width - 1 characters is rendered whole,
\* left-justified and padded, and a text of width characters or more as its
\* first width - 1 characters and one truncation marker.
C16_Cells ==
  TablePrinted => Rendered(TableRows(matches, Len(args.size) > 0), 1)

\* an id of 30 characters is shown as its first 24 and the marker
C16_Witness ==
  /\ TablePrinted
  /\ Len(matches) = 1
  /\ Len(matches[1].model) = 30
  /\ Len(args.size) = 0
  /\ SubSeq(stdout[3], 1, 25) = SubSeq(matches[1].model, 1, 24) \o <<Ellipsis>>

\* an id of exactly 25 characters loses its last character to the marker
C16_WitnessExact ==
  /\ TablePrinted
  /\ Len(matches) = 1
  /\ Len(matches[1].model) = 25
  /\ Len(args.size) = 0
  /\ SubSeq(stdout[3], 1, 25) = SubSeq(matches[1].model, 1, 24) \o <<Ellipsis>>

(***************************************************************************)
(* Properties of the reference instant                                     *)
(***************************************************************************)
RelativeFilter == FilterGiven(args.updated) /\ args.updated.expr.k = "rel"

\* C17 as stated: in a query with a relative update filter every record is
\* compared with one and the same reference instant, so that records with the
\* same timestamp are all kept or all dropped.
C17_OneReference ==
  (pc = "topn" /\ RelativeFilter) =>
    /\ Cardinality(references) <= 1
    /\ \A i, j \in 1..Len(model_files) :
         model_files[i].updated = model_files[j].updated
           => (InMatches(model_files[i]) <=> InMatches(model_files[j]))

(***************************************************************************)
(* Properties of the top-N cut                                             *)
(***************************************************************************)
AfterCut == pc \in {"sort", "output", "done", "nomatch"}

\* C18 as stated: for top<n> with an integer n, zero and negative included,
\* the list after the cut holds at most max(n, 0) records, and exactly
\* min(n, survivors) records when n >= 0.
C18_TopNBound ==
  (TopGiven /\ AfterCut) =>
    /\ Len(matches) <= (IF TopArg.val > 0 THEN TopArg.val ELSE 0)
    /\ TopArg.val >= 0 =>
         Len(matches) = IF TopArg.val < Len(survivors) THEN TopArg.val ELSE Len(survivors)

(***************************************************************************)
(* Properties of the two output formats                                    *)
(***************************************************************************)
\* the Model column of the table holds, line by line, the identifiers given,
\* each cut to the column as every cell is
ModelColumnIs(ids) ==
  /\ Len(stdout) = Len(ids) + 2
  /\ \A r \in 1..Len(ids) :
       SubSeq(stdout[r + 2], 1, ColumnWidths[1]) = ExpectedCell(ids[r], ColumnWidths[1], 1)

\* C19 as stated: when a size filter was supplied, with --all too, the Model
\* column of the table lists the identifiers the flat output prints for the
\* same final result, in the same order: 'id:size' per size shown, the bare
\* id for a record with no sizes, and no record is missing.
C19_SameIdentifiers ==
  (TablePrinted /\ Len(args.size) > 0) => ModelColumnIs(FlatLines(matches, args))

====
